---------------------------- MODULE Spec2Model ----------------------------
(***************************************************************************)
(* Model of the DDoS protection service:                                   *)
(*   - DdosProtectionService (src/src/service.rs): the per-IP admission    *)
(*     state machine over the ip_states map and its RwLock;                *)
(*   - CloudflareRulesManager (src/src/cloudflare/rules.rs): the block     *)
(*     registry (ip_rule_ids, firewall_rules) and its calls to the         *)
(*     firewall API (the enforcer);                                        *)
(*   - RateLimiter (src/src/core/rate_limiter.rs): the fixed-window        *)
(*     counter kept in the Redis store.                                    *)
(* Every async fn is cut at its await points: a step is what a task does   *)
(* between two awaits.  A lock is a variable naming its holder, and a task *)
(* waiting for a lock can step only when the lock is free (tokio's RwLock  *)
(* and Mutex are not reentrant).                                           *)
(***************************************************************************)
EXTENDS Integers, Sequences, FiniteSets, TLC

(***************************************************************************)
(* Bounds of the model.                                                    *)
(***************************************************************************)
\* callers: worker tasks of one process (service), replicas (rate limiter)
Tasks == {"w1", "w2"}
\* identities (source addresses)
IPs == {"a", "b"}
\* the clock runs from 0 to MaxTime
MaxTime == 2
\* configurations: max_requests_per_ip in 0..MaxRequestsCfg
MaxRequestsCfg == 1
\* configurations: violations_before_block in 0..MaxViolationsCfg
MaxViolationsCfg == 2
\* configuration: time_window_seconds
TimeWindowCfg == 1
\* configuration: block_duration_seconds
BlockDurationCfg == 1
\* process_request is not called for an IpState whose request_count has
\* reached MaxCount or whose violations has reached MaxViolations
MaxCount == 2
MaxViolations == 3
\* the firewall hands out rule ids 1..MaxRules
MaxRules == 2
\* rate limiter configurations: max_requests in 0..MaxRequestsRl
MaxRequestsRl == 1
\* rate limiter configuration: period_seconds
PeriodRl == 2
\* check_rate_limit is not called for a key whose count has reached MaxStored
MaxStored == 2
\* TrafficAnalyzer: the largest request_threshold and the window, in seconds
ThresholdCfg == 2
TaWindowCfg == 2
\* the period of TrafficAnalyzer's tally clearing (300 s in the source), in
\* the model's clock
CleanupInterval == 2
\* the largest count of a traffic key and of a tally entry
MaxTraffic == 2

NoTask == "none"
NoIp == "none"
\* Option<T>: None is the empty sequence, Some(x) the one-element sequence
None == <<>>
Some(x) == <<x>>
IsSome(o) == Len(o) = 1
Unwrap(o) == o[1]

\* HashMap::insert and HashMap::remove on a function with a finite domain
MapInsert(m, k, v) == [x \in DOMAIN m \cup {k} |-> IF x = k THEN v ELSE m[x]]
MapRemove(m, k) == [x \in DOMAIN m \ {k} |-> m[x]]

VARIABLES
    now,                \* Instant::now(), in seconds
    config,             \* DdosProtectionConfig
    ip_states,          \* HashMap<String, IpState>
    ip_states_writer,   \* the task holding ip_states' write lock, or NoTask
    ip_rule_ids,        \* rules manager: ip -> rule id
    ip_rule_ids_holder, \* the task holding the ip_rule_ids mutex, or NoTask
    firewall_rules,     \* rules manager: rule description (one per ip) -> rule id
    remote_rules,       \* the firewall's own rule set: {[id, ip]}
    next_rule_id,       \* the id the firewall gives its next rule
    pc,                 \* per task: the await point it is at, or "idle"
    op,                 \* per task: the public method it is in
    arg,                \* per task: that call's ip argument
    caller,             \* per task: who called unblock_ip ("api" or "cleanup")
    pending,            \* per task: cleanup's expired blocks still to unblock
    obs,                \* per task: what the call in progress has observed
    returned,           \* the call that returned in the last step, if one did
    window_log          \* per ip: the requests of its current window (history)

\* RateLimiter and the Redis store it shares with its replicas
VARIABLES
    rl_config,          \* RateLimitConfig
    counts,             \* store: key rate_limit:{ip} -> count (the keys that exist)
    expires,            \* store: key -> the instant it expires (the keys with a TTL)
    rl_pc,              \* per task: the store command it is about to send, or "idle"
    rl_arg,             \* per task: the call's ip argument
    rl_read,            \* per task: check_rate_limit's local `count`
    rl_obs,             \* per task: what the call in progress has observed
    rl_returned,        \* the call that returned in the last step, if one did
    allowed_log,        \* per ip: calls allowed since the key last came to exist
    reset_log           \* per ip: whether the last command on the key was a successful
                        \* DEL, and whether the count it deleted was at the limit

rl_vars == <<rl_config, counts, expires, rl_pc, rl_arg, rl_read, rl_obs,
             rl_returned, allowed_log, reset_log>>

\* TrafficAnalyzer and its keys in the Redis store
VARIABLES
    ta_config,          \* request_threshold and time_window_seconds
    traffic,            \* store: key traffic:{ip} -> count (the keys that exist)
    traffic_expires,    \* store: key -> the instant it expires (the keys with a TTL)
    request_counts,     \* the in-memory tally: ip -> count
    last_cleanup,       \* the instant of the last clearing of the tally
    redis_conn_holder,  \* the task holding the redis_conn mutex, or NoTask
    last_cleanup_holder,\* the task holding the last_cleanup mutex, or NoTask
    ta_pc,              \* per task: the step of the call it is at, or "idle"
    ta_arg,             \* per task: the call's ip argument
    ta_returned         \* the call that returned in the last step, if one did

ta_vars == <<ta_config, traffic, traffic_expires, request_counts, last_cleanup,
             redis_conn_holder, last_cleanup_holder, ta_pc, ta_arg, ta_returned>>

vars == <<now, config, ip_states, ip_states_writer, ip_rule_ids,
          ip_rule_ids_holder, firewall_rules, remote_rules, next_rule_id,
          pc, op, arg, caller, pending, obs, returned, window_log, rl_vars,
          ta_vars>>

registry_vars == <<ip_rule_ids, ip_rule_ids_holder, firewall_rules>>
remote_vars == <<remote_rules, next_rule_id>>
service_vars == <<config, ip_states, ip_states_writer, registry_vars,
                  remote_vars, pc, op, arg, caller, pending, obs, returned,
                  window_log>>


(***************************************************************************)
(* IpState and the pure steps of process_request.                          *)
(***************************************************************************)
IpStateDefault ==
    [request_count |-> 0, window_start |-> now, violations |-> 0,
     blocked_until |-> None]

\* or_insert_with(IpState::default)
GetOrCreate(ip) ==
    IF ip \in DOMAIN ip_states THEN ip_states[ip] ELSE IpStateDefault

\* variant: the window is over as soon as time_window_seconds have passed
WindowElapsedInclusive(state) ==
    now - state.window_start >= config.time_window_seconds

WindowElapsed(state) ==
    now - state.window_start > config.time_window_seconds

\* variant: a new window starts with no violations
ResetWindowClearsViolations(state) ==
    IF WindowElapsed(state)
    THEN [state EXCEPT !.request_count = 0, !.window_start = now, !.violations = 0]
    ELSE state

\* variant: the count is reset and the window's start is kept
ResetWindowKeepStart(state) ==
    IF WindowElapsed(state)
    THEN [state EXCEPT !.request_count = 0]
    ELSE state

ResetWindow(state) ==
    IF WindowElapsed(state)
    THEN [state EXCEPT !.request_count = 0, !.window_start = now]
    ELSE state

\* variant: a lost update, the count written is that of a stale read
CountRequestLost(state) ==
    [state EXCEPT !.request_count = IF @ = 0 THEN 1 ELSE @]

CountRequest(state) == [state EXCEPT !.request_count = @ + 1]

\* variant: the request that reaches the limit is over the limit
ExceedsLimitAtLimit(state) == state.request_count >= config.max_requests_per_ip

ExceedsLimit(state) == state.request_count > config.max_requests_per_ip

RecordViolation(state) == [state EXCEPT !.violations = @ + 1]

ShouldBlock(state) == state.violations >= config.violations_before_block


(***************************************************************************)
(* What a call observes.  It is kept per task while the call runs and is   *)
(* shown in `returned` by the step in which the call returns (history,     *)
(* read by the properties only, except rule_id, the response's id that     *)
(* block_ip caches).                                                       *)
(***************************************************************************)
ObsNone ==
    [fresh |-> FALSE,        \* process_request found no IpState and no rule id
     answer |-> "none",      \* the enforcer's answer to this call's request
     rule_id |-> 0,          \* the rule id the enforcer returned, 0 if none
     at |-> 0,               \* the instant the enforcer answered
     had_record |-> FALSE,   \* unblock_ip found a rule id for the ip
     registry |-> "none"]    \* what the rules manager returned to the service

NoCall == [op |-> "none", arg |-> NoIp, ret |-> "none", obs |-> ObsNone]

\* a public method returns `result` to its caller, having observed o
Return(t, result, o) ==
    /\ pc' = [pc EXCEPT ![t] = "idle"]
    /\ op' = [op EXCEPT ![t] = "none"]
    /\ arg' = [arg EXCEPT ![t] = NoIp]
    /\ caller' = [caller EXCEPT ![t] = "api"]
    /\ pending' = [pending EXCEPT ![t] = {}]
    /\ obs' = [obs EXCEPT ![t] = ObsNone]
    /\ returned' = [op |-> op[t], arg |-> arg[t], ret |-> result, obs |-> o]

\* the task goes on to its next await point, having observed o
Goto(t, label, o) ==
    /\ pc' = [pc EXCEPT ![t] = label]
    /\ obs' = [obs EXCEPT ![t] = o]
    /\ returned' = NoCall
    /\ UNCHANGED <<op, arg, caller, pending>>

(***************************************************************************)
(* Requests of one ip in its current local window, counted apart from      *)
(* IpState: a window opens with the first request that finds none open     *)
(* and stays open while now - start <= time_window_seconds.  n counts the  *)
(* requests that took the write lock in the window, ok those of them that  *)
(* returned Ok.                                                            *)
(***************************************************************************)
NextWindowLog(ip, allowed) ==
    LET one == IF allowed THEN 1 ELSE 0
    IN  IF /\ window_log[ip].n > 0
           /\ now - window_log[ip].start <= config.time_window_seconds
        THEN [window_log EXCEPT ![ip].n = @ + 1, ![ip].ok = @ + one]
        ELSE [window_log EXCEPT ![ip] = [start |-> now, n |-> 1, ok |-> one]]

(***************************************************************************)
(* DdosProtectionService::is_ip_blocked, called first by process_request.  *)
(***************************************************************************)
\* CloudflareRulesManager::is_ip_blocked, once the ip_rule_ids mutex is granted
\* variant: the rules manager is not consulted
RulesIsIpBlockedNever(ip) == FALSE

\* variant: a rule id stops counting once block_duration_seconds have passed
\* since the enforcer accepted the rule
RulesIsIpBlockedWhileDue(ip) ==
    /\ ip \in DOMAIN ip_rule_ids
    /\ ~\E t \in Tasks :
          /\ arg[t] = ip
          /\ obs[t].answer = "created"
          /\ now >= obs[t].at + config.block_duration_seconds

RulesIsIpBlocked(ip) == ip \in DOMAIN ip_rule_ids

\* the local half of is_ip_blocked, once the read lock is granted
LocalIsIpBlocked(ip) ==
    /\ ip \in DOMAIN ip_states
    /\ IsSome(ip_states[ip].blocked_until)
    /\ now < Unwrap(ip_states[ip].blocked_until)

IsBlockedRulesStep(t) ==
    /\ IF RulesIsIpBlocked(arg[t])
       THEN Return(t, "IpBlocked", obs[t])
       ELSE Goto(t, "is_blocked_local", obs[t])
    /\ UNCHANGED <<now, config, ip_states, ip_states_writer, registry_vars,
                   remote_vars, window_log>>

IsBlockedLocalStep(t) ==
    /\ IF LocalIsIpBlocked(arg[t])
       THEN Return(t, "IpBlocked", obs[t])
       ELSE Goto(t, "request_write", obs[t])
    /\ UNCHANGED <<now, config, ip_states, ip_states_writer, registry_vars,
                   remote_vars, window_log>>

(***************************************************************************)
(* process_request from ip_states.write() to its return or to the call of  *)
(* block_ip, which it makes with the write guard still alive.              *)
(***************************************************************************)
ProcessRequestLocked(t) ==
    LET ip == arg[t]
        counted == CountRequest(ResetWindow(GetOrCreate(ip)))
        violated == RecordViolation(counted)
        seen == [obs[t] EXCEPT
                   !.fresh = ip \notin DOMAIN ip_states /\ ip \notin DOMAIN ip_rule_ids]
    IN  /\ window_log' = NextWindowLog(ip, ~ExceedsLimit(counted))
        /\ IF ~ExceedsLimit(counted)
           THEN /\ ip_states' = MapInsert(ip_states, ip, counted)
                /\ Return(t, "Ok", seen)
                /\ UNCHANGED ip_states_writer
           ELSE /\ ip_states' = MapInsert(ip_states, ip, violated)
                /\ IF ShouldBlock(violated)
                   THEN /\ Goto(t, "block_create", seen)
                        /\ ip_states_writer' = t
                   ELSE /\ Return(t, "RateLimitExceeded", seen)
                        /\ UNCHANGED ip_states_writer
        /\ UNCHANGED <<now, config, registry_vars, remote_vars>>

(***************************************************************************)
(* The firewall API (the enforcer), an external collaborator: its answer   *)
(* to a request is any of the answers it can give.                         *)
(***************************************************************************)
\* create_firewall_rule: a success response carrying a rule id, a success
\* response whose result holds no "id", success:false, a transport failure
CreateAnswers == {"created", "created_no_id", "rejected", "unreachable"}
\* delete_rule
DeleteAnswers == {"deleted", "failed"}

\* variant: a failed call is taken for a success
RuleCreatedAlways(answer) == TRUE

\* variant: the success flag of the response is ignored
RuleCreatedIgnoringSuccess(answer) ==
    answer \in {"created", "created_no_id", "rejected"}

RuleCreated(answer) == answer \in {"created", "created_no_id"}

(***************************************************************************)
(* DdosProtectionService::block_ip, called by process_request, and         *)
(* CloudflareRulesManager::block_ip inside it.                             *)
(***************************************************************************)
\* rules.rs block_ip up to the response check: the request to the firewall
CreateFirewallRule(t) ==
    /\ pc[t] = "block_create"
    /\ \E answer \in CreateAnswers :
        LET seen == [obs[t] EXCEPT
                       !.answer = answer,
                       !.at = now,
                       !.rule_id = IF answer = "created" THEN next_rule_id ELSE 0,
                       !.registry = IF RuleCreated(answer) THEN "Ok" ELSE "CloudflareError"]
        IN  /\ RuleCreated(answer) => next_rule_id <= MaxRules
            /\ IF RuleCreated(answer)
               THEN /\ remote_rules' = remote_rules \cup {[id |-> next_rule_id, ip |-> arg[t]]}
                    /\ next_rule_id' = next_rule_id + 1
                    /\ Goto(t, IF answer = "created" THEN "block_cache" ELSE "block_write", seen)
                    /\ UNCHANGED ip_states_writer
               ELSE \* `?` in service block_ip and in process_request: both return
                    \* the error, and process_request's write guard is dropped
                    /\ UNCHANGED remote_vars
                    /\ Return(t, "CloudflareError", seen)
                    /\ ip_states_writer' = NoTask
    /\ UNCHANGED <<now, config, ip_states, registry_vars, window_log, rl_vars, ta_vars>>

\* rules.rs block_ip: the caches are updated once the response carries an id
BlockIpCache(t) ==
    /\ firewall_rules' = MapInsert(firewall_rules, arg[t], obs[t].rule_id)
    /\ ip_rule_ids' = MapInsert(ip_rule_ids, arg[t], obs[t].rule_id)
    /\ Goto(t, "block_write", obs[t])
    /\ UNCHANGED <<now, config, ip_states, ip_states_writer, ip_rule_ids_holder,
                   remote_vars, window_log>>

SetBlockedUntil(state) ==
    [state EXCEPT !.blocked_until = Some(now + config.block_duration_seconds)]

\* service.rs block_ip after ip_states.write() is granted; process_request
\* then returns IpBlocked and both write guards are dropped
BlockIpRecord(t) ==
    /\ ip_states' = IF arg[t] \in DOMAIN ip_states
                    THEN [ip_states EXCEPT ![arg[t]] = SetBlockedUntil(@)]
                    ELSE ip_states
    /\ ip_states_writer' = NoTask
    /\ Return(t, "IpBlocked", obs[t])
    /\ UNCHANGED <<now, config, registry_vars, remote_vars, window_log>>

(***************************************************************************)
(* DdosProtectionService::unblock_ip and CloudflareRulesManager::          *)
(* unblock_ip inside it.  cleanup_expired_states calls unblock_ip for each *)
(* expired block, holding ip_states' write guard, and only logs an error.  *)
(***************************************************************************)
\* unblock_ip returns `result` to the api caller, or to cleanup's loop, which
\* goes on to the next expired block and returns after the last one
UnblockReturns(t, result, o) ==
    IF caller[t] = "cleanup"
    THEN LET rest == pending[t] \ {arg[t]}
         IN  IF rest = {}
             THEN /\ Return(t, "Ok", o)
                  /\ ip_states_writer' = NoTask
             ELSE /\ \E ip \in rest : arg' = [arg EXCEPT ![t] = ip]
                  /\ pending' = [pending EXCEPT ![t] = rest]
                  /\ pc' = [pc EXCEPT ![t] = "unblock_lookup"]
                  /\ obs' = [obs EXCEPT ![t] = ObsNone]
                  /\ returned' = NoCall
                  /\ UNCHANGED <<op, caller, ip_states_writer>>
    ELSE /\ Return(t, result, o)
         /\ UNCHANGED ip_states_writer

\* rules.rs unblock_ip: the lookup under the ip_rule_ids mutex; the guard
\* lives to the end of the function because rule_id borrows from it
UnblockLookup(t) ==
    LET found == arg[t] \in DOMAIN ip_rule_ids
        seen == [obs[t] EXCEPT !.had_record = found,
                               !.registry = IF found THEN "none" ELSE "Cloudflare"]
    IN  /\ IF found
           THEN /\ ip_rule_ids_holder' = t
                /\ Goto(t, "unblock_delete", seen)
                /\ UNCHANGED ip_states_writer
           ELSE \* ok_or_else(.. "No rule found for IP") and `?`
                /\ UNCHANGED ip_rule_ids_holder
                /\ UnblockReturns(t, "CloudflareError", seen)
        /\ UNCHANGED <<now, config, ip_states, ip_rule_ids, firewall_rules,
                       remote_vars, window_log>>

\* rules.rs unblock_ip: the request to the firewall
DeleteRule(t) ==
    /\ pc[t] = "unblock_delete"
    /\ \E answer \in DeleteAnswers :
        LET seen == [obs[t] EXCEPT
                       !.answer = answer,
                       !.registry = IF answer = "deleted" THEN "none" ELSE "Cloudflare"]
        IN  IF answer = "deleted"
            THEN /\ remote_rules' = {r \in remote_rules : r.id # ip_rule_ids[arg[t]]}
                 /\ Goto(t, "unblock_relock", seen)
                 /\ UNCHANGED <<ip_states_writer, ip_rule_ids_holder>>
            ELSE /\ UNCHANGED remote_rules
                 /\ ip_rule_ids_holder' = NoTask
                 /\ UnblockReturns(t, "CloudflareError", seen)
    /\ UNCHANGED <<now, config, ip_states, ip_rule_ids, firewall_rules,
                   next_rule_id, window_log, rl_vars, ta_vars>>

\* rules.rs unblock_ip after the second ip_rule_ids.lock() is granted
UnblockRemove(t) ==
    /\ ip_rule_ids' = MapRemove(ip_rule_ids, arg[t])
    /\ ip_rule_ids_holder' = NoTask
    /\ Goto(t, "unblock_write", [obs[t] EXCEPT !.registry = "Ok"])
    /\ UNCHANGED <<now, config, ip_states, ip_states_writer, firewall_rules,
                   remote_vars, window_log>>

ClearBlock(state) == [state EXCEPT !.blocked_until = None, !.violations = 0]

\* service.rs unblock_ip after ip_states.write() is granted
UnblockRecord(t) ==
    /\ ip_states' = IF arg[t] \in DOMAIN ip_states
                    THEN [ip_states EXCEPT ![arg[t]] = ClearBlock(@)]
                    ELSE ip_states
    /\ UnblockReturns(t, "Ok", obs[t])
    /\ UNCHANGED <<now, config, registry_vars, remote_vars, window_log>>

(***************************************************************************)
(* DdosProtectionService::cleanup_expired_states after ip_states.write()   *)
(* is granted: the idle states are removed, then unblock_ip is called for  *)
(* every expired block with the write guard still alive.                   *)
(***************************************************************************)
\* variant: the violations of the identity are not looked at
IsIdleWhateverViolations(state) ==
    /\ WindowElapsed(state)
    /\ state.blocked_until = None

IsIdle(state) ==
    /\ WindowElapsed(state)
    /\ state.violations = 0
    /\ state.blocked_until = None

BlockExpired(state) ==
    /\ IsSome(state.blocked_until)
    /\ now >= Unwrap(state.blocked_until)

RemoveIdle(states) ==
    [ip \in {i \in DOMAIN states : ~IsIdle(states[i])} |-> states[ip]]

CleanupLocked(t) ==
    LET kept == RemoveIdle(ip_states)
        due == {ip \in DOMAIN kept : BlockExpired(kept[ip])}
    IN  /\ ip_states' = kept
        /\ IF due = {}
           THEN /\ Return(t, "Ok", obs[t])
                /\ UNCHANGED ip_states_writer
           ELSE /\ ip_states_writer' = t
                /\ pending' = [pending EXCEPT ![t] = due]
                /\ caller' = [caller EXCEPT ![t] = "cleanup"]
                /\ \E ip \in due : arg' = [arg EXCEPT ![t] = ip]
                /\ pc' = [pc EXCEPT ![t] = "unblock_lookup"]
                /\ returned' = NoCall
                /\ UNCHANGED <<op, obs>>
        /\ UNCHANGED <<now, config, registry_vars, remote_vars, window_log>>

(***************************************************************************)
(* The steps of the service's tasks.                                       *)
(***************************************************************************)
ServiceOps == {"process_request", "unblock_ip", "cleanup_expired_states"}

EntryPoint(o) ==
    CASE o = "process_request" -> "is_blocked_rules"
      [] o = "unblock_ip" -> "unblock_lookup"
      [] o = "cleanup_expired_states" -> "cleanup_write"

\* process_request is called only below the caps on an IpState's counters
WithinCaps(ip) ==
    ip \in DOMAIN ip_states =>
        /\ ip_states[ip].request_count < MaxCount
        /\ ip_states[ip].violations < MaxViolations

\* an idle task calls a public method of the service
CallService(t) ==
    /\ pc[t] = "idle"
    /\ \E o \in ServiceOps :
       \E ip \in IF o = "cleanup_expired_states" THEN {NoIp} ELSE IPs :
        /\ o = "process_request" => WithinCaps(ip)
        /\ op' = [op EXCEPT ![t] = o]
        /\ arg' = [arg EXCEPT ![t] = ip]
        /\ pc' = [pc EXCEPT ![t] = EntryPoint(o)]
    /\ returned' = NoCall
    /\ UNCHANGED <<now, config, ip_states, ip_states_writer, registry_vars,
                   remote_vars, caller, pending, obs, window_log, rl_vars, ta_vars>>

\* tokio Mutex: ip_rule_ids.lock().await is granted when nobody holds it
AcquireIpRuleIds(t) ==
    /\ pc[t] \in {"is_blocked_rules", "block_cache", "unblock_lookup", "unblock_relock"}
    /\ ip_rule_ids_holder = NoTask
    /\ CASE pc[t] = "is_blocked_rules" -> IsBlockedRulesStep(t)
         [] pc[t] = "block_cache" -> BlockIpCache(t)
         [] pc[t] = "unblock_lookup" -> UnblockLookup(t)
         [] pc[t] = "unblock_relock" -> UnblockRemove(t)
    /\ UNCHANGED <<rl_vars, ta_vars>>

\* tokio RwLock: ip_states.read().await is granted when there is no writer
AcquireIpStatesRead(t) ==
    /\ pc[t] = "is_blocked_local"
    /\ ip_states_writer = NoTask
    /\ IsBlockedLocalStep(t)
    /\ UNCHANGED <<rl_vars, ta_vars>>

\* tokio RwLock: ip_states.write().await is granted when nobody holds the
\* lock (read guards are never held across an await)
AcquireIpStatesWrite(t) ==
    /\ pc[t] \in {"request_write", "block_write", "unblock_write", "cleanup_write"}
    /\ ip_states_writer = NoTask
    /\ CASE pc[t] = "request_write" -> ProcessRequestLocked(t)
         [] pc[t] = "block_write" -> BlockIpRecord(t)
         [] pc[t] = "unblock_write" -> UnblockRecord(t)
         [] pc[t] = "cleanup_write" -> CleanupLocked(t)
    /\ UNCHANGED <<rl_vars, ta_vars>>

\* time passes
Tick ==
    /\ now < MaxTime
    /\ now' = now + 1
    /\ returned' = NoCall
    /\ UNCHANGED <<config, ip_states, ip_states_writer, registry_vars,
                   remote_vars, pc, op, arg, caller, pending, obs, window_log,
                   rl_vars, ta_vars>>

RlObsNone ==
    [after_reset |-> "no",   \* the reset, if any, that the call's first command follows
     at_limit |-> FALSE,     \* max_requests calls had been allowed at the call's GET
     stale |-> FALSE]        \* the key was deleted or expired after the call's INCR

\* the status of a call that returns none
NoStatus == [count |-> 0, limit |-> 0, remaining |-> 0, reset_time |-> None]

RlNoCall ==
    [op |-> "none", arg |-> NoIp, ret |-> "none", obs |-> RlObsNone,
     status |-> NoStatus]

\* RateLimiter::new on an empty store
RlIdle ==
    /\ counts = <<>>
    /\ expires = <<>>
    /\ rl_pc = [t \in Tasks |-> "idle"]
    /\ rl_arg = [t \in Tasks |-> NoIp]
    /\ rl_read = [t \in Tasks |-> 0]
    /\ rl_obs = [t \in Tasks |-> RlObsNone]
    /\ rl_returned = RlNoCall
    /\ allowed_log = [ip \in IPs |-> 0]
    /\ reset_log = [ip \in IPs |-> "no"]

Configs ==
    [max_requests_per_ip : 0..MaxRequestsCfg,
     time_window_seconds : {TimeWindowCfg},
     violations_before_block : 0..MaxViolationsCfg,
     block_duration_seconds : {BlockDurationCfg}]

\* DdosProtectionService::new and CloudflareRulesManager::new
ServiceIdle ==
    /\ ip_states = <<>>
    /\ ip_states_writer = NoTask
    /\ ip_rule_ids = <<>>
    /\ ip_rule_ids_holder = NoTask
    /\ firewall_rules = <<>>
    /\ remote_rules = {}
    /\ next_rule_id = 1
    /\ pc = [t \in Tasks |-> "idle"]
    /\ op = [t \in Tasks |-> "none"]
    /\ arg = [t \in Tasks |-> NoIp]
    /\ caller = [t \in Tasks |-> "api"]
    /\ pending = [t \in Tasks |-> {}]
    /\ obs = [t \in Tasks |-> ObsNone]
    /\ returned = NoCall
    /\ window_log = [ip \in IPs |-> [start |-> 0, n |-> 0, ok |-> 0]]

RlConfigs ==
    [max_requests : 0..MaxRequestsRl, period_seconds : {PeriodRl}]

TaNoCall == [op |-> "none", arg |-> NoIp, ret |-> "none", read_failed |-> FALSE]

TaConfigs ==
    [request_threshold : 0..ThresholdCfg, time_window_seconds : {TaWindowCfg}]

\* TrafficAnalyzer::new on an empty store
TaIdle ==
    /\ traffic = <<>>
    /\ traffic_expires = <<>>
    /\ request_counts = <<>>
    /\ last_cleanup = 0
    /\ redis_conn_holder = NoTask
    /\ last_cleanup_holder = NoTask
    /\ ta_pc = [t \in Tasks |-> "idle"]
    /\ ta_arg = [t \in Tasks |-> NoIp]
    /\ ta_returned = TaNoCall

\* the service after construction, for every configuration; the rate limiter
\* is not used
Init ==
    /\ now = 0
    /\ config \in Configs
    /\ ServiceIdle
    /\ rl_config \in {c \in RlConfigs : c.max_requests = MaxRequestsRl}
    /\ RlIdle
    /\ ta_config \in {c \in TaConfigs : c.request_threshold = ThresholdCfg}
    /\ TaIdle

TaskStep(t) ==
    \/ CallService(t)
    \/ AcquireIpRuleIds(t)
    \/ AcquireIpStatesRead(t)
    \/ AcquireIpStatesWrite(t)
    \/ CreateFirewallRule(t)
    \/ DeleteRule(t)

Next == (\E t \in Tasks : TaskStep(t)) \/ Tick

Spec == Init /\ [][Next]_vars


(***************************************************************************)
(* A restart of the process: main builds a new CloudflareRulesManager,     *)
(* awaits its initialize, and only then builds the service and spawns its  *)
(* tasks.  The firewall keeps the rules an earlier run created.            *)
(***************************************************************************)
\* the task that runs main
MainTask == CHOOSE t \in Tasks : TRUE

\* initialize caches, for each rule the firewall lists, the text before the
\* first ':' of its description under that same text: a key and a value
\* that are not the rule's id (0 here); ip_rule_ids is not touched.
\* "Block IP {ip} - DDoS Protection" has no ':' in it for an IPv4 address.
InitializeCache(rules) == [ip \in {r.ip : r \in rules} |-> 0]

\* CloudflareRulesManager::initialize, and the rest of main's start-up when
\* it succeeds; when the listing fails main returns the error
Initialize(t) ==
    /\ pc[t] = "initialize"
    /\ \E listed \in BOOLEAN :
        IF listed
        THEN /\ firewall_rules' = InitializeCache(remote_rules)
             /\ pc' = [w \in Tasks |-> "idle"]
             /\ returned' = [NoCall EXCEPT !.op = "initialize", !.ret = "Ok"]
        ELSE /\ pc' = [pc EXCEPT ![t] = "exited"]
             /\ returned' = [NoCall EXCEPT !.op = "initialize", !.ret = "CloudflareError"]
             /\ UNCHANGED firewall_rules
    /\ op' = [op EXCEPT ![t] = "none"]
    /\ UNCHANGED <<now, config, ip_states, ip_states_writer, ip_rule_ids,
                   ip_rule_ids_holder, remote_vars, arg, caller, pending, obs,
                   window_log, rl_vars, ta_vars>>

\* the rule sets an earlier run can have left at the firewall: one deny rule
RulesLeft == {{[id |-> 1, ip |-> ip]} : ip \in IPs}

\* the process after a restart, main about to await initialize
RestartInit ==
    /\ now = 0
    /\ config \in {c \in Configs : /\ c.max_requests_per_ip = MaxRequestsCfg
                                   /\ c.violations_before_block = MaxViolationsCfg}
    /\ ip_states = <<>>
    /\ ip_states_writer = NoTask
    /\ ip_rule_ids = <<>>
    /\ ip_rule_ids_holder = NoTask
    /\ firewall_rules = <<>>
    /\ remote_rules \in RulesLeft
    /\ next_rule_id = 2
    /\ pc = [t \in Tasks |-> IF t = MainTask THEN "initialize" ELSE "not_spawned"]
    /\ op = [t \in Tasks |-> IF t = MainTask THEN "initialize" ELSE "none"]
    /\ arg = [t \in Tasks |-> NoIp]
    /\ caller = [t \in Tasks |-> "api"]
    /\ pending = [t \in Tasks |-> {}]
    /\ obs = [t \in Tasks |-> ObsNone]
    /\ returned = NoCall
    /\ window_log = [ip \in IPs |-> [start |-> 0, n |-> 0, ok |-> 0]]
    /\ rl_config \in {c \in RlConfigs : c.max_requests = MaxRequestsRl}
    /\ RlIdle
    /\ ta_config \in {c \in TaConfigs : c.request_threshold = ThresholdCfg}
    /\ TaIdle

RestartNext == Next \/ \E t \in Tasks : Initialize(t)

RestartSpec == RestartInit /\ [][RestartNext]_vars

(***************************************************************************)
(* CloudflareRulesManager::remove_firewall_rule, a public method of the    *)
(* rules manager that the service shares: the rule of a description is     *)
(* deleted at the firewall and dropped from the description cache.         *)
(***************************************************************************)
\* delete_firewall_rule: success, success:false, a transport failure
RemoveAnswers == {"deleted", "rejected", "unreachable"}

\* an idle task calls remove_firewall_rule with the description of an ip
CallRemoveFirewallRule(t) ==
    /\ pc[t] = "idle"
    /\ \E ip \in IPs :
        /\ op' = [op EXCEPT ![t] = "remove_firewall_rule"]
        /\ arg' = [arg EXCEPT ![t] = ip]
        /\ pc' = [pc EXCEPT ![t] = "remove_read"]
    /\ returned' = NoCall
    /\ UNCHANGED <<now, config, ip_states, ip_states_writer, registry_vars,
                   remote_vars, caller, pending, obs, window_log, rl_vars, ta_vars>>

\* remove_firewall_rule: the rule id of the description, read from the
\* cache; Ok(()) when there is none
RemoveLookup(t) ==
    /\ pc[t] = "remove_read"
    /\ IF arg[t] \in DOMAIN firewall_rules
       THEN Goto(t, "remove_delete",
                 [obs[t] EXCEPT !.rule_id = firewall_rules[arg[t]]])
       ELSE Return(t, "Ok", obs[t])
    /\ UNCHANGED <<now, config, ip_states, ip_states_writer, registry_vars,
                   remote_vars, window_log, rl_vars, ta_vars>>

\* remove_firewall_rule: the request to the firewall and, when it succeeds,
\* rules.remove(description)
RemoveDelete(t) ==
    /\ pc[t] = "remove_delete"
    /\ \E answer \in RemoveAnswers :
        LET seen == [obs[t] EXCEPT !.answer = answer]
        IN  IF answer = "deleted"
            THEN /\ remote_rules' = {r \in remote_rules : r.id # obs[t].rule_id}
                 /\ firewall_rules' = MapRemove(firewall_rules, arg[t])
                 /\ Return(t, "Ok", seen)
            ELSE /\ UNCHANGED <<remote_rules, firewall_rules>>
                 /\ Return(t, "CloudflareError", seen)
    /\ UNCHANGED <<now, config, ip_states, ip_states_writer, ip_rule_ids,
                   ip_rule_ids_holder, next_rule_id, window_log, rl_vars, ta_vars>>

\* the service, and a caller of the rules manager's remove_firewall_rule
RegistryNext ==
    \/ Next
    \/ \E t \in Tasks : CallRemoveFirewallRule(t)
    \/ \E t \in Tasks : RemoveLookup(t)
    \/ \E t \in Tasks : RemoveDelete(t)

RegistrySpec == Init /\ [][RegistryNext]_vars

(***************************************************************************)
(* The Redis store, an external collaborator: the commands the rate        *)
(* limiter sends, each of which the store either answers or fails.         *)
(***************************************************************************)
\* GET as check_rate_limit reads it: conn.get(&key).unwrap_or(0) is 0 for a
\* missing key and for a command that failed
ReadCount(ip, answered) ==
    IF answered /\ ip \in DOMAIN counts THEN counts[ip] ELSE 0

\* INCR creates a missing key with the value 1 and no TTL
StoreIncr(ip) ==
    MapInsert(counts, ip, IF ip \in DOMAIN counts THEN counts[ip] + 1 ELSE 1)

\* EXPIRE sets the TTL of an existing key and does nothing to a missing one
StoreExpire(ip, seconds) ==
    IF ip \in DOMAIN counts THEN MapInsert(expires, ip, now + seconds) ELSE expires

\* the keys whose TTL has run out at instant t
Expired(t) == {ip \in DOMAIN expires : expires[ip] <= t}

\* the key of ip ceases to exist (DEL, or its TTL ran out)
KeyGone(gone) ==
    /\ counts' = [ip \in DOMAIN counts \ gone |-> counts[ip]]
    /\ expires' = [ip \in DOMAIN expires \ gone |-> expires[ip]]
    /\ allowed_log' = [ip \in IPs |-> IF ip \in gone THEN 0 ELSE allowed_log[ip]]

\* variant: DEL deletes nothing
StoreDelWrongKey(ip) == KeyGone({})

\* variant: DEL sets the count to 0 and keeps the key
StoreDelZero(ip) ==
    /\ counts' = MapInsert(counts, ip, 0)
    /\ allowed_log' = [allowed_log EXCEPT ![ip] = 0]
    /\ UNCHANGED expires

\* DEL removes the key, whether it exists or not
StoreDel(ip) == KeyGone({ip})

(***************************************************************************)
(* RateLimiter: check_rate_limit, reset_rate_limit, get_rate_limit_status. *)
(***************************************************************************)
\* variant: the call at the limit is let through
RateLimitExceededAbove(count) == count > rl_config.max_requests

RateLimitExceeded(count) == count >= rl_config.max_requests

RlReturn(t, o, result) ==
    /\ rl_pc' = [rl_pc EXCEPT ![t] = "idle"]
    /\ rl_arg' = [rl_arg EXCEPT ![t] = NoIp]
    /\ rl_read' = [rl_read EXCEPT ![t] = 0]
    /\ rl_obs' = [rl_obs EXCEPT ![t] = RlObsNone]
    /\ rl_returned' = [op |-> o, arg |-> rl_arg[t], ret |-> result, obs |-> rl_obs[t],
                       status |-> NoStatus]

RlGoto(t, label) ==
    /\ rl_pc' = [rl_pc EXCEPT ![t] = label]
    /\ rl_returned' = RlNoCall
    /\ UNCHANGED rl_arg

\* variant: the remaining requests are the difference, whatever the count
RemainingUnguarded(count) == rl_config.max_requests - count

\* get_rate_limit_status: the requests left in the window
Remaining(count) ==
    IF count >= rl_config.max_requests THEN 0 ELSE rl_config.max_requests - count

\* RateLimiter::get_rate_limit_status: count, limit and remaining
RateLimitStatus(ip, answered) ==
    LET count == ReadCount(ip, answered)
    IN  [count |-> count,
         limit |-> rl_config.max_requests,
         remaining |-> Remaining(count)]

\* TTL as get_rate_limit_status reads it: conn.ttl(&key).unwrap_or(-1); the
\* store answers -2 for a missing key and -1 for a key without expiry
ReadTtl(ip, answered) ==
    IF ~answered THEN -1
    ELSE IF ip \notin DOMAIN counts THEN -2
    ELSE IF ip \in DOMAIN expires THEN expires[ip] - now
    ELSE -1

\* the RateLimitStatus that get_rate_limit_status builds from the two reads
StatusFrom(count, ttl) ==
    [count |-> count,
     limit |-> rl_config.max_requests,
     remaining |-> Remaining(count),
     reset_time |-> IF ttl > 0 THEN Some(now + ttl) ELSE None]

\* an idle task calls check_rate_limit, reset_rate_limit or
\* get_rate_limit_status
CallRateLimiter(t) ==
    /\ rl_pc[t] = "idle"
    /\ \E o \in {"get", "del", "status"} : \E ip \in IPs :
        /\ (o = "get" /\ ip \in DOMAIN counts) => counts[ip] < MaxStored
        /\ rl_pc' = [rl_pc EXCEPT ![t] = o]
        /\ rl_arg' = [rl_arg EXCEPT ![t] = ip]
    /\ rl_returned' = RlNoCall
    /\ UNCHANGED <<now, rl_config, counts, expires, rl_read, rl_obs,
                   allowed_log, reset_log,
                   service_vars, ta_vars>>

\* check_rate_limit: the read of the count and the decision
CheckGet(t) ==
    /\ rl_pc[t] = "get"
    /\ \E answered \in BOOLEAN :
        LET ip == rl_arg[t]
            count == ReadCount(ip, answered)
            seen == [rl_obs[t] EXCEPT
                       !.after_reset = reset_log[ip],
                       !.at_limit = answered /\ allowed_log[ip] = rl_config.max_requests]
        IN  IF RateLimitExceeded(count)
            THEN /\ rl_pc' = [rl_pc EXCEPT ![t] = "idle"]
                 /\ rl_arg' = [rl_arg EXCEPT ![t] = NoIp]
                 /\ rl_returned' = [op |-> "check_rate_limit", arg |-> ip,
                                    ret |-> "RateLimitExceeded", obs |-> seen,
                                    status |-> NoStatus]
                 /\ UNCHANGED <<rl_read, rl_obs>>
            ELSE /\ RlGoto(t, "incr")
                 /\ rl_read' = [rl_read EXCEPT ![t] = count]
                 /\ rl_obs' = [rl_obs EXCEPT ![t] = seen]
    /\ reset_log' = [reset_log EXCEPT ![rl_arg[t]] = "no"]
    /\ UNCHANGED <<now, rl_config, counts, expires, allowed_log,
                   service_vars, ta_vars>>

\* check_rate_limit: conn.incr(&key, 1), then Ok(true) unless the count read
\* was 0
CheckIncr(t) ==
    /\ rl_pc[t] = "incr"
    /\ \E answered \in BOOLEAN :
        IF ~answered
        THEN /\ RlReturn(t, "check_rate_limit", "Redis")
             /\ UNCHANGED <<counts, allowed_log>>
        ELSE /\ counts' = StoreIncr(rl_arg[t])
             /\ IF rl_read[t] = 0
                THEN /\ RlGoto(t, "expire")
                     /\ UNCHANGED <<rl_read, rl_obs, allowed_log>>
                ELSE /\ RlReturn(t, "check_rate_limit", "Ok")
                     /\ allowed_log' = [allowed_log EXCEPT ![rl_arg[t]] = @ + 1]
    /\ reset_log' = [reset_log EXCEPT ![rl_arg[t]] = "no"]
    /\ UNCHANGED <<now, rl_config, expires,
                   service_vars, ta_vars>>

\* check_rate_limit: conn.expire(&key, period_seconds), then Ok(true)
CheckExpire(t) ==
    /\ rl_pc[t] = "expire"
    /\ \E answered \in BOOLEAN :
        IF ~answered
        THEN /\ RlReturn(t, "check_rate_limit", "Redis")
             /\ UNCHANGED <<expires, allowed_log>>
        ELSE /\ expires' = StoreExpire(rl_arg[t], rl_config.period_seconds)
             /\ RlReturn(t, "check_rate_limit", "Ok")
             /\ allowed_log' = [allowed_log EXCEPT ![rl_arg[t]] =
                                  IF rl_obs[t].stale THEN @ ELSE @ + 1]
    /\ reset_log' = [reset_log EXCEPT ![rl_arg[t]] = "no"]
    /\ UNCHANGED <<now, rl_config, counts,
                   service_vars, ta_vars>>

\* the calls that have sent their INCR for one of the keys are out of date
\* once that key is gone
MarkStale(gone) ==
    [t \in Tasks |-> IF rl_pc[t] = "expire" /\ rl_arg[t] \in gone
                     THEN [rl_obs[t] EXCEPT !.stale = TRUE] ELSE rl_obs[t]]

\* reset_rate_limit: conn.del(&key)
ResetDel(t) ==
    /\ rl_pc[t] = "del"
    /\ \E answered \in BOOLEAN :
        /\ rl_pc' = [rl_pc EXCEPT ![t] = "idle"]
        /\ rl_arg' = [rl_arg EXCEPT ![t] = NoIp]
        /\ rl_returned' = [op |-> "reset_rate_limit", arg |-> rl_arg[t],
                           ret |-> IF answered THEN "Ok" ELSE "Redis",
                           obs |-> [RlObsNone EXCEPT !.after_reset = reset_log[rl_arg[t]]],
                           status |-> NoStatus]
        /\ IF answered
           THEN /\ StoreDel(rl_arg[t])
                /\ rl_obs' = MarkStale({rl_arg[t]})
                /\ reset_log' = [reset_log EXCEPT ![rl_arg[t]] =
                                    IF ReadCount(rl_arg[t], TRUE) >= rl_config.max_requests
                                    THEN "limited" ELSE "reset"]
           ELSE /\ reset_log' = [reset_log EXCEPT ![rl_arg[t]] = "no"]
                /\ UNCHANGED <<counts, expires, allowed_log, rl_obs>>
    /\ UNCHANGED <<now, rl_config, rl_read,
                   service_vars, ta_vars>>

\* get_rate_limit_status: the reads of the count and of the TTL, then
\* Ok(RateLimitStatus)
GetRateLimitStatus(t) ==
    /\ rl_pc[t] = "status"
    /\ \E got, ttl_answered \in BOOLEAN :
        rl_returned' = [op |-> "get_rate_limit_status", arg |-> rl_arg[t],
                        ret |-> "Ok", obs |-> RlObsNone,
                        status |-> StatusFrom(ReadCount(rl_arg[t], got),
                                              ReadTtl(rl_arg[t], ttl_answered))]
    /\ rl_pc' = [rl_pc EXCEPT ![t] = "idle"]
    /\ rl_arg' = [rl_arg EXCEPT ![t] = NoIp]
    /\ UNCHANGED <<now, rl_config, counts, expires, rl_read, rl_obs,
                   allowed_log, reset_log, service_vars, ta_vars>>

\* time passes, and the store drops the keys whose TTL has run out
StoreTick ==
    /\ now < MaxTime
    /\ now' = now + 1
    /\ KeyGone(Expired(now + 1))
    /\ rl_obs' = MarkStale(Expired(now + 1))
    /\ rl_returned' = RlNoCall
    /\ UNCHANGED <<rl_config, rl_pc, rl_arg, rl_read, reset_log,
                   service_vars, ta_vars>>

\* the rate limiter after construction, for every configuration; the
\* service is not used
RlInit ==
    /\ now = 0
    /\ config \in {c \in Configs : /\ c.max_requests_per_ip = MaxRequestsCfg
                                   /\ c.violations_before_block = MaxViolationsCfg}
    /\ ServiceIdle
    /\ rl_config \in RlConfigs
    /\ RlIdle
    /\ ta_config \in {c \in TaConfigs : c.request_threshold = ThresholdCfg}
    /\ TaIdle

RlTaskStep(t) ==
    \/ CallRateLimiter(t)
    \/ CheckGet(t)
    \/ CheckIncr(t)
    \/ CheckExpire(t)
    \/ ResetDel(t)
    \/ GetRateLimitStatus(t)

RlNext == (\E t \in Tasks : RlTaskStep(t)) \/ StoreTick

RlSpec == RlInit /\ [][RlNext]_vars


(***************************************************************************)
(* TrafficAnalyzer (src/src/core/traffic_analyzer.rs): the traffic volume  *)
(* counter kept in the store under traffic:{ip}, and the in-memory tally.  *)
(* The callers are tasks of one process: every method that uses the store  *)
(* holds the redis_conn mutex from its first line to its return.           *)
(***************************************************************************)
\* GET as check_for_ddos reads it: conn.get(&key).unwrap_or(0) is 0 for a
\* missing key and for a command that failed
TrafficRead(ip, answered) ==
    IF answered /\ ip \in DOMAIN traffic THEN traffic[ip] ELSE 0

\* INCR creates a missing key with the value 1 and no TTL
TrafficIncr(ip) ==
    MapInsert(traffic, ip, IF ip \in DOMAIN traffic THEN traffic[ip] + 1 ELSE 1)

\* EXPIRE sets the TTL of an existing key and does nothing to a missing one
TrafficExpire(ip, seconds) ==
    IF ip \in DOMAIN traffic
    THEN MapInsert(traffic_expires, ip, now + seconds)
    ELSE traffic_expires

\* variant: a count equal to the threshold is not suspect
IsDdosAbove(count) == count > ta_config.request_threshold

\* check_for_ddos: count >= self.request_threshold
IsDdos(count) == count >= ta_config.request_threshold

\* variant: the clearing is due only after more than the period
CleanupNotDueInclusive == now - last_cleanup <= CleanupInterval

\* cleanup_old_entries: last_cleanup.elapsed() < Duration::from_secs(300)
CleanupNotDue == now - last_cleanup < CleanupInterval

TaReturn(t, result, failed) ==
    /\ ta_pc' = [ta_pc EXCEPT ![t] = "idle"]
    /\ ta_arg' = [ta_arg EXCEPT ![t] = NoIp]
    /\ ta_returned' = [op |-> CASE ta_pc[t] \in {"record_conn", "record_expire",
                                                 "record_tally"} -> "record_request"
                                [] ta_pc[t] = "check_conn" -> "check_for_ddos"
                                [] OTHER -> "cleanup_old_entries",
                       arg |-> ta_arg[t], ret |-> result, read_failed |-> failed]

TaGoto(t, label) ==
    /\ ta_pc' = [ta_pc EXCEPT ![t] = label]
    /\ ta_returned' = TaNoCall
    /\ UNCHANGED ta_arg

\* an idle task calls record_request, check_for_ddos or cleanup_old_entries
CallAnalyzer(t) ==
    /\ ta_pc[t] = "idle"
    /\ \E label \in {"record_conn", "check_conn", "cleanup_last"} : \E ip \in IPs :
        /\ label = "record_conn" =>
                /\ TrafficRead(ip, TRUE) < MaxTraffic
                /\ ip \in DOMAIN request_counts => request_counts[ip] < MaxTraffic
        /\ label = "cleanup_last" => ip = CHOOSE i \in IPs : TRUE
        /\ ta_pc' = [ta_pc EXCEPT ![t] = label]
        /\ ta_arg' = [ta_arg EXCEPT ![t] = IF label = "cleanup_last" THEN NoIp ELSE ip]
    /\ ta_returned' = TaNoCall
    /\ UNCHANGED <<now, ta_config, traffic, traffic_expires, request_counts,
                   last_cleanup, redis_conn_holder, last_cleanup_holder,
                   service_vars, rl_vars>>

\* record_request: redis_conn.lock() and conn.incr(&key, 1)
RecordIncr(t) ==
    /\ ta_pc[t] = "record_conn"
    /\ redis_conn_holder = NoTask
    /\ \E answered \in BOOLEAN :
        IF answered
        THEN /\ traffic' = TrafficIncr(ta_arg[t])
             /\ redis_conn_holder' = t
             /\ TaGoto(t, "record_expire")
        ELSE /\ TaReturn(t, "Redis", FALSE)
             /\ UNCHANGED <<traffic, redis_conn_holder>>
    /\ UNCHANGED <<now, ta_config, traffic_expires, request_counts, last_cleanup,
                   last_cleanup_holder, service_vars, rl_vars>>

\* record_request: conn.expire(&key, time_window_seconds), sent every time
RecordExpire(t) ==
    /\ ta_pc[t] = "record_expire"
    /\ \E answered \in BOOLEAN :
        IF answered
        THEN /\ traffic_expires' = TrafficExpire(ta_arg[t], ta_config.time_window_seconds)
             /\ TaGoto(t, "record_tally")
             /\ UNCHANGED redis_conn_holder
        ELSE /\ TaReturn(t, "Redis", FALSE)
             /\ redis_conn_holder' = NoTask
             /\ UNCHANGED traffic_expires
    /\ UNCHANGED <<now, ta_config, traffic, request_counts, last_cleanup,
                   last_cleanup_holder, service_vars, rl_vars>>

\* record_request: request_counts.lock(), *count += 1, Ok(())
RecordTally(t) ==
    /\ ta_pc[t] = "record_tally"
    /\ request_counts' =
          MapInsert(request_counts, ta_arg[t],
                    IF ta_arg[t] \in DOMAIN request_counts
                    THEN request_counts[ta_arg[t]] + 1 ELSE 1)
    /\ redis_conn_holder' = NoTask
    /\ TaReturn(t, "Ok", FALSE)
    /\ UNCHANGED <<now, ta_config, traffic, traffic_expires, last_cleanup,
                   last_cleanup_holder, service_vars, rl_vars>>

\* check_for_ddos: redis_conn.lock(), the read of the count and Ok(is_ddos)
CheckForDdos(t) ==
    /\ ta_pc[t] = "check_conn"
    /\ redis_conn_holder = NoTask
    /\ \E answered \in BOOLEAN :
        TaReturn(t, IF IsDdos(TrafficRead(ta_arg[t], answered))
                    THEN "Ok(true)" ELSE "Ok(false)", ~answered)
    /\ UNCHANGED <<now, ta_config, traffic, traffic_expires, request_counts,
                   last_cleanup, redis_conn_holder, last_cleanup_holder,
                   service_vars, rl_vars>>

\* cleanup_old_entries: last_cleanup.lock(), the test of the period and the
\* new last_cleanup
CleanupCheck(t) ==
    /\ ta_pc[t] = "cleanup_last"
    /\ last_cleanup_holder = NoTask
    /\ IF CleanupNotDue
       THEN /\ TaReturn(t, "Ok", FALSE)
            /\ UNCHANGED <<last_cleanup, last_cleanup_holder>>
       ELSE /\ last_cleanup' = now
            /\ last_cleanup_holder' = t
            /\ TaGoto(t, "cleanup_clear")
    /\ UNCHANGED <<now, ta_config, traffic, traffic_expires, request_counts,
                   redis_conn_holder, service_vars, rl_vars>>

\* cleanup_old_entries: request_counts.lock(), counts.clear(), Ok(())
CleanupClear(t) ==
    /\ ta_pc[t] = "cleanup_clear"
    /\ request_counts' = <<>>
    /\ last_cleanup_holder' = NoTask
    /\ TaReturn(t, "Ok", FALSE)
    /\ UNCHANGED <<now, ta_config, traffic, traffic_expires, last_cleanup,
                   redis_conn_holder, service_vars, rl_vars>>

\* time passes, and the store drops the traffic keys whose TTL has run out
TrafficTick ==
    /\ now < MaxTime
    /\ now' = now + 1
    /\ LET gone == {ip \in DOMAIN traffic_expires : traffic_expires[ip] <= now + 1}
       IN  /\ traffic' = [ip \in DOMAIN traffic \ gone |-> traffic[ip]]
           /\ traffic_expires' = [ip \in DOMAIN traffic_expires \ gone |->
                                    traffic_expires[ip]]
    /\ ta_returned' = TaNoCall
    /\ UNCHANGED <<ta_config, request_counts, last_cleanup, redis_conn_holder,
                   last_cleanup_holder, ta_pc, ta_arg, service_vars, rl_vars>>

\* the traffic analyzer after construction, for every configuration; the
\* service and the rate limiter are not used
TaInit ==
    /\ now = 0
    /\ config \in {c \in Configs : /\ c.max_requests_per_ip = MaxRequestsCfg
                                   /\ c.violations_before_block = MaxViolationsCfg}
    /\ ServiceIdle
    /\ rl_config \in {c \in RlConfigs : c.max_requests = MaxRequestsRl}
    /\ RlIdle
    /\ ta_config \in TaConfigs
    /\ TaIdle

TaTaskStep(t) ==
    \/ CallAnalyzer(t)
    \/ RecordIncr(t)
    \/ RecordExpire(t)
    \/ RecordTally(t)
    \/ CheckForDdos(t)
    \/ CleanupCheck(t)
    \/ CleanupClear(t)

TaNext == (\E t \in Tasks : TaTaskStep(t)) \/ TrafficTick

TaSpec == TaInit /\ [][TaNext]_vars

(***************************************************************************)
(* Properties.  `returned` and `rl_returned` describe a call in the state  *)
(* its return leads to, so ip_states, counts and the rest are read as the  *)
(* call left them.                                                         *)
(***************************************************************************)
Returned(o) == returned.op = o
RlReturned(o) == rl_returned.op = o

\* a task waits for a lock that it holds itself: the lock is never granted
WaitsForOwnWriteLock(t) ==
    /\ pc[t] \in {"request_write", "block_write", "unblock_write", "cleanup_write"}
    /\ ip_states_writer = t

WaitsForOwnMutex(t) ==
    /\ pc[t] \in {"is_blocked_rules", "block_cache", "unblock_lookup", "unblock_relock"}
    /\ ip_rule_ids_holder = t

\* C1 as claimed: the first process_request of an identity that has no
\* IpState and no rule id returns Ok, whatever the configuration
C1_Original ==
    (Returned("process_request") /\ returned.obs.fresh) => returned.ret = "Ok"

\* C1, amended: the first process_request of an identity that has no IpState
\* and no rule id returns Ok in every configuration whose
\* max_requests_per_ip is at least 1
C1_FirstRequestAllowed ==
    (/\ Returned("process_request")
     /\ returned.obs.fresh
     /\ config.max_requests_per_ip >= 1) => returned.ret = "Ok"

C1_Witness ==
    /\ Returned("process_request")
    /\ returned.obs.fresh
    /\ config.max_requests_per_ip >= 1
    /\ returned.ret = "Ok"

\* C3 as claimed: the process_request that reaches the violation threshold
\* and whose rule the enforcer accepts returns IpBlocked, so it is never
\* left waiting for the ip_states write lock while it holds that lock
C3_Original ==
    \A t \in Tasks :
        (op[t] = "process_request" /\ obs[t].answer = "created")
            => ~WaitsForOwnWriteLock(t)

\* C4 as claimed: unblock_ip of an identity that has no rule id succeeds,
\* in the rules manager and in the service
C4_Original ==
    (Returned("unblock_ip") /\ ~returned.obs.had_record)
        => (returned.ret = "Ok" /\ returned.obs.registry = "Ok")

\* the identity has a rule id, and block_duration_seconds have passed since
\* the enforcer accepted the rule
BlockDue(ip) ==
    /\ ip \in DOMAIN ip_rule_ids
    /\ \E t \in Tasks :
        /\ arg[t] = ip
        /\ obs[t].answer = "created"
        /\ now >= obs[t].at + config.block_duration_seconds

\* C5 as claimed: once a block's duration has passed, the sweep runs and
\* lifts it, so a cleanup_expired_states called then is granted the
\* ip_states write lock: it is never behind a task that holds the lock and
\* waits for it
C5_Original ==
    \A t \in Tasks :
        (pc[t] = "cleanup_write" /\ \E ip \in IPs : BlockDue(ip))
            => ~(\E w \in Tasks : WaitsForOwnWriteLock(w))

\* C7: when the enforcer answers success:false to the block of an identity
\* at the violation threshold, process_request returns CloudflareError in
\* that step, with no blocked_until, no rule id, the violations kept (at
\* least violations_before_block) and the write lock released; and an
\* over-limit request is answered RateLimitExceeded only below the
\* threshold, so the next over-limit request asks the enforcer again
C7_RejectedBlock ==
    /\ \A t \in Tasks : obs[t].answer # "rejected"
    /\ (Returned("process_request") /\ returned.obs.answer = "rejected")
        => /\ returned.ret = "CloudflareError"
           /\ returned.arg \in DOMAIN ip_states
           /\ ip_states[returned.arg].blocked_until = None
           /\ ip_states[returned.arg].violations >= config.violations_before_block
           /\ ip_states[returned.arg].violations >= 1
           /\ returned.arg \notin DOMAIN ip_rule_ids
           /\ returned.arg \notin DOMAIN firewall_rules
           /\ ip_states_writer = NoTask
    /\ (Returned("process_request") /\ returned.ret = "RateLimitExceeded")
        => ip_states[returned.arg].violations < config.violations_before_block

\* a block rejected again after an earlier rejection
C7_Witness ==
    /\ Returned("process_request")
    /\ returned.obs.answer = "rejected"
    /\ returned.ret = "CloudflareError"
    /\ config.violations_before_block >= 1
    /\ ip_states[returned.arg].violations > config.violations_before_block

\* C9: a process_request that finds the identity blocked, by a rule id when
\* it asks the rules manager or by a blocked_until in the future when it
\* reads the local state, returns IpBlocked in that step; and no step of
\* is_ip_blocked changes ip_states or the registry or sends the enforcer
\* anything
C9_BlockedUntouched ==
    [][\A t \in Tasks :
        (pc[t] \in {"is_blocked_rules", "is_blocked_local"} /\ pc'[t] # pc[t])
            => /\ ip_states' = ip_states
               /\ ip_states_writer' = ip_states_writer
               /\ registry_vars' = registry_vars
               /\ remote_vars' = remote_vars
               /\ window_log' = window_log
               /\ ( \/ pc[t] = "is_blocked_rules" /\ arg[t] \in DOMAIN ip_rule_ids
                    \/ /\ pc[t] = "is_blocked_local"
                       /\ arg[t] \in DOMAIN ip_states
                       /\ IsSome(ip_states[arg[t]].blocked_until)
                       /\ now < Unwrap(ip_states[arg[t]].blocked_until) )
                    => /\ pc'[t] = "idle"
                       /\ returned' = [op |-> "process_request", arg |-> arg[t],
                                       ret |-> "IpBlocked", obs |-> ObsNone]
      ]_vars

C9_Witness ==
    /\ Returned("process_request")
    /\ returned.ret = "IpBlocked"
    /\ returned.arg \in DOMAIN ip_rule_ids
    /\ returned.arg \in DOMAIN ip_states

\* C10: the n-th process_request of an identity in one local window returns
\* Ok if and only if n <= max_requests_per_ip; a later one is answered
\* RateLimitExceeded while violations < violations_before_block, and
\* otherwise goes on to block the identity
C10_NthRequest ==
    [][\A t \in Tasks :
        (pc[t] = "request_write" /\ pc'[t] # pc[t])
            => LET ip == arg[t]
                   n == window_log'[ip].n
               IN  /\ n >= 1
                   /\ n <= config.max_requests_per_ip
                        => (pc'[t] = "idle" /\ returned'.ret = "Ok")
                   /\ n > config.max_requests_per_ip
                        => IF ip_states'[ip].violations < config.violations_before_block
                           THEN pc'[t] = "idle" /\ returned'.ret = "RateLimitExceeded"
                           ELSE pc'[t] = "block_create"
      ]_vars

\* the request after the last allowed one of a window
C10_Witness ==
    /\ Returned("process_request")
    /\ returned.ret = "RateLimitExceeded"
    /\ config.max_requests_per_ip >= 1
    /\ window_log[returned.arg].n = config.max_requests_per_ip + 1

Min(a, b) == IF a <= b THEN a ELSE b

\* C11 as claimed: violations counts windows: once a request of a window has
\* been over the limit, no later step in that window changes the identity's
\* violations
C11_Original ==
    [][\A ip \in IPs :
        (/\ ip \in DOMAIN ip_states
         /\ ip \in DOMAIN ip_states'
         /\ window_log[ip].n > config.max_requests_per_ip
         /\ window_log'[ip].start = window_log[ip].start
         /\ window_log'[ip].n > window_log[ip].n)
            => ip_states'[ip].violations = ip_states[ip].violations
      ]_vars

\* C12 as claimed: no task is at a call of the enforcer (create rule, delete
\* rule) while the ip_states write lock is held by it
C12_Original ==
    \A t \in Tasks :
        pc[t] \in {"block_create", "unblock_delete"} => ip_states_writer # t

\* C13 as claimed: every process_request returns, so none waits for the
\* ip_states write lock while the lock's holder is itself waiting for it
\* (the holder, or any later call behind it)
C13_Original ==
    \A t \in Tasks :
        (op[t] = "process_request" /\ pc[t] \in {"request_write", "block_write"})
            => ~(\E w \in Tasks : ip_states_writer = w /\ WaitsForOwnWriteLock(w))

C2_LimitReached ==
    [][\A t \in Tasks :
        (rl_pc[t] = "get" /\ rl_pc'[t] # "get")
            => /\ rl_obs'[t].at_limit = FALSE
               /\ rl_returned'.obs.at_limit
                    => rl_returned'.ret = "RateLimitExceeded"
               /\ rl_returned'.ret = "RateLimitExceeded"
                    => /\ counts' = counts
                       /\ expires' = expires
                       /\ \A ip \in IPs :
                            RateLimitStatus(ip, TRUE)' = RateLimitStatus(ip, TRUE)
      ]_vars

C2_Witness ==
    /\ RlReturned("check_rate_limit")
    /\ rl_returned.obs.at_limit
    /\ rl_returned.ret = "RateLimitExceeded"
    /\ rl_config.max_requests >= 1
    /\ counts[rl_returned.arg] = rl_config.max_requests

\* C6: a reset_rate_limit that the store answers returns Ok and leaves the
\* key absent, whatever the key held; and a reset_rate_limit that follows a
\* successful one with no command on the key in between leaves the store as
\* the first one left it
C6_ResetIdempotent ==
    [][\A t \in Tasks :
        (rl_pc[t] = "del" /\ rl_pc'[t] # "del")
            => /\ rl_returned'.op = "reset_rate_limit"
               /\ rl_returned'.ret = "Ok"
                    => /\ rl_arg[t] \notin DOMAIN counts'
                       /\ rl_arg[t] \notin DOMAIN expires'
                       /\ \A ip \in IPs \ {rl_arg[t]} :
                            RateLimitStatus(ip, TRUE)' = RateLimitStatus(ip, TRUE)
               /\ reset_log[rl_arg[t]] # "no"
                    => (counts' = counts /\ expires' = expires)
      ]_vars

\* the second of two successful resets in a row
C6_Witness ==
    /\ RlReturned("reset_rate_limit")
    /\ rl_returned.ret = "Ok"
    /\ rl_returned.obs.after_reset = "limited"
    /\ rl_returned.arg \notin DOMAIN counts

\* C8: when max_requests >= 1, the check_rate_limit whose GET is the first
\* command on the key after a successful reset_rate_limit is not answered
\* RateLimitExceeded, whatever the count was before the reset: it returns Ok
\* unless the store fails its INCR or EXPIRE
C8_AllowedAfterReset ==
    /\ \A t \in Tasks :
        (rl_obs[t].after_reset # "no" /\ rl_config.max_requests >= 1)
            => (rl_pc[t] \in {"incr", "expire"} /\ rl_read[t] = 0)
    /\ (/\ RlReturned("check_rate_limit")
        /\ rl_returned.obs.after_reset # "no"
        /\ rl_config.max_requests >= 1) => rl_returned.ret \in {"Ok", "Redis"}

\* an identity that was rate-limited is allowed after the reset
C8_Witness ==
    /\ RlReturned("check_rate_limit")
    /\ rl_returned.obs.after_reset = "limited"
    /\ rl_config.max_requests >= 1
    /\ rl_returned.ret = "Ok"

\* C15 as claimed: a failed read of the counter is never taken for a count
\* of zero: a check_rate_limit that goes on to INCR does so with the count
\* the store holds for the key
C15_Original ==
    [][\A t \in Tasks :
        (/\ rl_pc[t] = "get"
         /\ rl_pc'[t] = "incr"
         /\ rl_arg[t] \in DOMAIN counts)
            => rl_read'[t] = counts[rl_arg[t]]
      ]_vars

\* C16 as claimed: a check_for_ddos whose read of the traffic counter failed
\* does not report 'not suspect' (Ok(false))
C16_Original ==
    (ta_returned.op = "check_for_ddos" /\ ta_returned.read_failed)
        => ta_returned.ret # "Ok(false)"

\* C17: when the enforcer's answer to create_firewall_rule is a transport
\* failure or success:false, the rules manager's block_ip returns an error
\* in that step and ip_rule_ids and firewall_rules are as before; and an
\* identity gets a rule id, in both maps, only from a block_ip whose
\* response was success:true, which records the id of that response
C17_BlockFailureNoRecord ==
    [][/\ \A t \in Tasks :
            (pc[t] = "block_create" /\ pc'[t] # "block_create")
                => /\ registry_vars' = registry_vars
                   /\ obs'[t].answer \notin {"rejected", "unreachable"}
                   /\ pc'[t] = "idle"
                        => /\ returned'.obs.answer \in {"rejected", "unreachable"}
                           /\ returned'.obs.registry = "CloudflareError"
                           /\ returned'.ret = "CloudflareError"
                   /\ pc'[t] # "idle" => obs'[t].registry = "Ok"
       /\ \A ip \in IPs :
            (\/ ip \in DOMAIN ip_rule_ids' \ DOMAIN ip_rule_ids
             \/ ip \in DOMAIN firewall_rules' \ DOMAIN firewall_rules)
                => \E t \in Tasks :
                    /\ pc[t] = "block_cache"
                    /\ arg[t] = ip
                    /\ obs[t].answer = "created"
                    /\ ip_rule_ids'[ip] = obs[t].rule_id
                    /\ firewall_rules'[ip] = obs[t].rule_id
                    /\ \E r \in remote_rules : r.id = obs[t].rule_id /\ r.ip = ip
      ]_vars

\* a block that failed in transport, after which the registry is empty
C17_Witness ==
    /\ Returned("process_request")
    /\ returned.obs.answer = "unreachable"
    /\ returned.obs.registry = "CloudflareError"
    /\ ip_rule_ids = <<>>
    /\ firewall_rules = <<>>

\* C18 as claimed: the record is removed when the enforcer's deletion
\* succeeds: the unblock_ip whose rule the enforcer has deleted is granted
\* the ip_rule_ids mutex to remove the record, it does not wait for the mutex
\* while holding it
C18_Original ==
    \A t \in Tasks : obs[t].answer = "deleted" => ~WaitsForOwnMutex(t)

\* C19 as claimed: a transport failure of create_firewall_rule is returned
\* by process_request as an error value other than the one it returns for
\* success:false, which is CloudflareError
C19_Original ==
    (Returned("process_request") /\ returned.obs.answer = "unreachable")
        => returned.ret # "CloudflareError"

\* C20 as claimed: an explicit unblock_ip of a blocked identity (one with a
\* rule id) goes on to clear the identity: it is never at the point where it
\* waits to remove the record with the record's mutex in its own hands
C20_Original ==
    \A t \in Tasks :
        (op[t] = "unblock_ip" /\ caller[t] = "api" /\ obs[t].had_record)
            => ~(pc[t] = "unblock_relock" /\ ip_rule_ids_holder = t)

\* C21 as claimed: while an identity is blocked every sweep gets to attempt
\* its unblock: a cleanup_expired_states called while the registry holds a
\* rule id is not left waiting for the ip_states write lock behind a call
\* that holds the lock until it is granted the lock
C21_Original ==
    \A t \in Tasks :
        (op[t] = "cleanup_expired_states" /\ pc[t] = "cleanup_write"
            /\ DOMAIN ip_rule_ids # {})
            => \A w \in Tasks : ip_states_writer = w => pc[w] # "block_write"

\* C22 as claimed: when initialize has returned after a restart, every
\* identity that has a deny rule at the firewall is reported blocked by the
\* rules manager's is_ip_blocked and has a rule id that unblock can use
C22_Original ==
    (Returned("initialize") /\ returned.ret = "Ok")
        => \A r \in remote_rules :
            /\ RulesIsIpBlocked(r.ip)
            /\ ip_rule_ids[r.ip] = r.id

\* C23: the process_request that takes the write lock for an identity with
\* an IpState leaves request_count = 1 and window_start = now when
\* now - window_start > time_window_seconds, and request_count one higher
\* and window_start as it was otherwise; a new IpState starts its window at
\* now with request_count = 1
C23_WindowReset ==
    [][\A t \in Tasks :
        (pc[t] = "request_write" /\ pc'[t] # "request_write")
            => LET ip == arg[t]
                   after == ip_states'[ip]
               IN  /\ ip \in DOMAIN ip_states'
                   /\ \A other \in DOMAIN ip_states \ {ip} :
                        /\ other \in DOMAIN ip_states'
                        /\ ip_states'[other] = ip_states[other]
                   /\ IF ip \notin DOMAIN ip_states
                      THEN after.request_count = 1 /\ after.window_start = now
                      ELSE IF now - ip_states[ip].window_start
                                > config.time_window_seconds
                           THEN /\ after.request_count = 1
                                /\ after.window_start = now
                           ELSE /\ after.request_count
                                    = ip_states[ip].request_count + 1
                                /\ after.window_start = ip_states[ip].window_start
      ]_vars

\* the first request of a later window of an identity that had been counted
C23_Witness ==
    /\ Returned("process_request")
    /\ returned.arg \in DOMAIN ip_states
    /\ ~returned.obs.fresh
    /\ ip_states[returned.arg].window_start = now
    /\ now > config.time_window_seconds
    /\ ip_states[returned.arg].request_count = 1
    /\ ip_states[returned.arg].violations > 0

\* C24: the sweep, in the step in which it is granted the write lock,
\* removes exactly the IpStates whose window has elapsed
\* (now - window_start > time_window_seconds), whose violations is 0 and
\* whose blocked_until is unset, adds none, and leaves every IpState it
\* retains as it was
C24_SweepRemovesIdle ==
    [][\A t \in Tasks :
        (pc[t] = "cleanup_write" /\ pc'[t] # "cleanup_write")
            => /\ DOMAIN ip_states' \subseteq DOMAIN ip_states
               /\ \A ip \in DOMAIN ip_states :
                    /\ ip \notin DOMAIN ip_states'
                        <=> /\ now - ip_states[ip].window_start
                                    > config.time_window_seconds
                            /\ ip_states[ip].violations = 0
                            /\ ip_states[ip].blocked_until = None
                    /\ ip \in DOMAIN ip_states'
                        => ip_states'[ip] = ip_states[ip]
      ]_vars

\* a sweep has removed one identity and retained another whose window has
\* elapsed too but whose violations is not 0
C24_Witness ==
    /\ Returned("cleanup_expired_states")
    /\ \E gone \in IPs \ DOMAIN ip_states : window_log[gone].n > 0
    /\ \E kept \in DOMAIN ip_states :
        /\ ip_states[kept].violations > 0
        /\ now - ip_states[kept].window_start > config.time_window_seconds

\* C25: no step lowers the violations of an identity, except the step of
\* unblock_ip that clears it: a request (allowed or not, in the same window
\* or a new one) leaves violations as it was or one higher, every other
\* step leaves it as it was, and the sweep removes an IpState only when its
\* violations is 0
C25_ViolationsKept ==
    [][\A ip \in DOMAIN ip_states :
        IF ip \in DOMAIN ip_states'
        THEN \/ ip_states'[ip].violations = ip_states[ip].violations
             \/ /\ ip_states'[ip].violations = ip_states[ip].violations + 1
                /\ \E t \in Tasks : pc[t] = "request_write" /\ arg[t] = ip
                /\ ip_states'[ip].request_count > config.max_requests_per_ip
             \/ /\ ip_states'[ip].violations = 0
                /\ \E t \in Tasks : pc[t] = "unblock_write" /\ arg[t] = ip
        ELSE ip_states[ip].violations = 0
      ]_vars

\* an allowed request of a new window, in which the violation of an earlier
\* window is still counted
C25_Witness ==
    /\ Returned("process_request")
    /\ returned.ret = "Ok"
    /\ ip_states[returned.arg].request_count = 1
    /\ ip_states[returned.arg].window_start > 0
    /\ ip_states[returned.arg].violations = 1
    /\ config.violations_before_block > 1

\* C26 as claimed: the expiry of a key is set once, by the request that
\* finds the count 0, and no later request of the same window changes it:
\* as long as the key keeps its expiry, the expiry keeps its value
C26_Original ==
    [][\A ip \in DOMAIN expires :
        ip \in DOMAIN expires' => expires'[ip] = expires[ip]]_vars

\* C27: get_rate_limit_status changes neither the count nor the expiry of
\* any key; the status it returns has limit = max_requests and
\* remaining = max_requests - count when count < max_requests, 0 otherwise,
\* so remaining is never negative; the count it reports is the key's count,
\* or 0 for a missing key or a failed read
C27_StatusPureRead ==
    [][\A t \in Tasks :
        (rl_pc[t] = "status" /\ rl_pc'[t] # "status")
            => /\ counts' = counts
               /\ expires' = expires
               /\ rl_returned'.op = "get_rate_limit_status"
               /\ rl_returned'.ret = "Ok"
               /\ rl_returned'.status.limit = rl_config.max_requests
               /\ rl_returned'.status.count \in
                    {0} \cup {counts[ip] : ip \in {rl_arg[t]} \cap DOMAIN counts}
               /\ rl_returned'.status.remaining =
                    IF rl_returned'.status.count < rl_config.max_requests
                    THEN rl_config.max_requests - rl_returned'.status.count
                    ELSE 0
               /\ rl_returned'.status.remaining >= 0
      ]_vars

\* the status of a key whose count is above the limit
C27_Witness ==
    /\ RlReturned("get_rate_limit_status")
    /\ rl_returned.status.count > rl_config.max_requests
    /\ rl_config.max_requests > 0
    /\ rl_returned.status.remaining = 0
    /\ counts[rl_returned.arg] = rl_returned.status.count
    /\ rl_returned.arg \in DOMAIN expires

\* C28: a check_for_ddos whose read the store answers returns Ok(true) if
\* the count of the identity's traffic key, which every record_request has
\* incremented, is at least request_threshold, and Ok(false) if it is
\* lower; a missing key counts 0
C28_VerdictAtThreshold ==
    (ta_returned.op = "check_for_ddos" /\ ~ta_returned.read_failed)
        => LET count == IF ta_returned.arg \in DOMAIN traffic
                        THEN traffic[ta_returned.arg] ELSE 0
           IN  ta_returned.ret =
                 IF count >= ta_config.request_threshold
                 THEN "Ok(true)" ELSE "Ok(false)"

\* the verdict on an identity whose requests have just reached the threshold
C28_Witness ==
    /\ ta_returned.op = "check_for_ddos"
    /\ ~ta_returned.read_failed
    /\ ta_returned.ret = "Ok(true)"
    /\ ta_config.request_threshold > 1
    /\ ta_returned.arg \in DOMAIN traffic
    /\ traffic[ta_returned.arg] = ta_config.request_threshold
    /\ ta_returned.arg \in DOMAIN request_counts

\* C29 as claimed: the expiry of a traffic key is set by the first
\* record_request after an empty period and later requests do not extend
\* it: as long as the key keeps its expiry, the expiry keeps its value
C29_Original ==
    [][\A ip \in DOMAIN traffic_expires :
        ip \in DOMAIN traffic_expires'
            => traffic_expires'[ip] = traffic_expires[ip]]_vars

\* C30: cleanup_old_entries called when at least the clearing period has
\* passed since last_cleanup (the last clearing, or the construction) sets
\* last_cleanup to the present and then empties the tally of every identity;
\* called earlier it returns Ok and leaves the tally and last_cleanup as
\* they were; no step of it changes a traffic key or its expiry, so the
\* verdict of check_for_ddos on every identity is the same after it
C30_Reclaim ==
    [][\A t \in Tasks :
        /\ (ta_pc[t] = "cleanup_last" /\ ta_pc'[t] # "cleanup_last")
             => /\ IF now - last_cleanup >= CleanupInterval
                   THEN /\ ta_pc'[t] = "cleanup_clear"
                        /\ last_cleanup' = now
                   ELSE /\ ta_pc'[t] = "idle"
                        /\ ta_returned'.op = "cleanup_old_entries"
                        /\ ta_returned'.ret = "Ok"
                        /\ last_cleanup' = last_cleanup
                /\ request_counts' = request_counts
                /\ traffic' = traffic
                /\ traffic_expires' = traffic_expires
        /\ (ta_pc[t] = "cleanup_clear" /\ ta_pc'[t] # "cleanup_clear")
             => /\ ta_pc'[t] = "idle"
                /\ ta_returned'.op = "cleanup_old_entries"
                /\ ta_returned'.ret = "Ok"
                /\ request_counts' = <<>>
                /\ last_cleanup' = last_cleanup
                /\ traffic' = traffic
                /\ traffic_expires' = traffic_expires
                /\ \A ip \in IPs :
                     IsDdos(TrafficRead(ip, TRUE))' = IsDdos(TrafficRead(ip, TRUE))
      ]_vars

\* a clearing that is due, with a suspect identity in the store
C30_Witness ==
    /\ ta_returned.op = "cleanup_old_entries"
    /\ ta_returned.ret = "Ok"
    /\ last_cleanup = now
    /\ now >= CleanupInterval
    /\ request_counts = <<>>
    /\ ta_config.request_threshold > 0
    /\ \E ip \in DOMAIN traffic : IsDdos(traffic[ip])

\* C31 as claimed: a process_request that reaches the violation threshold
\* and asks the enforcer for a rule returns IpBlocked whatever the enforcer
\* answers: a failure of the enforcer (such as the refusal of a rule that
\* another replica has already created) is not returned as an error
C31_Original ==
    (Returned("process_request") /\ returned.obs.answer # "none")
        => returned.ret = "IpBlocked"

\* C32 as claimed: every cleanup_expired_states terminates and leaves the
\* ip_states write lock free: none is in progress while the write lock is
\* in the hands of a task that will never release it
C32_Original ==
    \A t \in Tasks :
        op[t] = "cleanup_expired_states"
            => ~(\E w \in Tasks : WaitsForOwnWriteLock(w))

\* C33 as claimed: the rules manager's unblock_ip has released the
\* ip_rule_ids mutex of its lookup when it asks for the mutex again to
\* remove the record
C33_Original ==
    \A t \in Tasks : pc[t] = "unblock_relock" => ip_rule_ids_holder # t

\* C34 as claimed: every key with a positive count has an expiry, or is
\* about to be given one by the call that has just created it
C34_Original ==
    \A ip \in DOMAIN counts :
        counts[ip] > 0
            => \/ ip \in DOMAIN expires
               \/ \E t \in Tasks : rl_pc[t] = "expire" /\ rl_arg[t] = ip

\* C35 as claimed: the count of a key never exceeds max_requests, and no
\* more than max_requests calls are allowed in the life of a key
C35_Original ==
    \A ip \in IPs :
        /\ ip \in DOMAIN counts => counts[ip] <= rl_config.max_requests
        /\ allowed_log[ip] <= rl_config.max_requests

\* C36 as claimed: the two indexes of the rules manager hold the same rule
\* ids: a rule id is in the description cache if and only if it is in the
\* map from identities to rule ids
C36_Original ==
    {firewall_rules[d] : d \in DOMAIN firewall_rules}
        = {ip_rule_ids[ip] : ip \in DOMAIN ip_rule_ids}

\* C37 as claimed: once the rules manager's block_ip has returned success
\* to the service (which then asks for the write lock), the identity is
\* reported blocked and the registry holds the id of every rule that the
\* firewall has for it
C37_Original ==
    \A t \in Tasks :
        (op[t] = "process_request" /\ pc[t] = "block_write")
            => /\ RulesIsIpBlocked(arg[t])
               /\ \A r \in remote_rules :
                    r.ip = arg[t] => ip_rule_ids[arg[t]] = r.id

\* C38: a process_request that asks the rules manager about an identity
\* with a rule id returns IpBlocked in that step, however long ago the rule
\* was created; no process_request goes on to count a request it found
\* blocked; and the passing of time removes no rule id: a rule id leaves the
\* registry only in the removal step of an unblock_ip for its identity
C38_BlockedWhileRecorded ==
    [][/\ \A t \in Tasks :
            (pc[t] = "is_blocked_rules" /\ pc'[t] # pc[t])
                => IF arg[t] \in DOMAIN ip_rule_ids
                   THEN /\ pc'[t] = "idle"
                        /\ returned'.op = "process_request"
                        /\ returned'.arg = arg[t]
                        /\ returned'.ret = "IpBlocked"
                   ELSE pc'[t] = "is_blocked_local"
       /\ \A ip \in DOMAIN ip_rule_ids :
            ip \notin DOMAIN ip_rule_ids'
                => \E t \in Tasks :
                    /\ pc[t] = "unblock_relock"
                    /\ arg[t] = ip
                    /\ obs[t].answer = "deleted"
       /\ now' # now => ip_rule_ids' = ip_rule_ids
      ]_vars

\* a request refused because of a rule id whose block_duration_seconds have
\* passed
C38_Witness ==
    /\ Returned("process_request")
    /\ returned.ret = "IpBlocked"
    /\ BlockDue(returned.arg)
    /\ returned.arg \in DOMAIN ip_states
    /\ ip_states[returned.arg].blocked_until = None

\* C39 as claimed: the sweep reclaims the IpState of every identity that
\* has stopped sending requests, whatever its violations: a sweep that has
\* returned leaves no IpState whose window has elapsed, which is not blocked
\* and for which no call is in progress
C39_Original ==
    Returned("cleanup_expired_states")
        => \A ip \in DOMAIN ip_states :
            ~(/\ WindowElapsed(ip_states[ip])
              /\ ip_states[ip].blocked_until = None
              /\ \A t \in Tasks : arg[t] # ip)

=============================================================================
